---- MODULE Spec2Model ----
(***************************************************************************)
(* The 24-point solver of GAME-24.py: Card, Game24.evaluate_expression,    *)
(* Game24.find_all_solutions_from_numbers, Game24.find_all_solutions and   *)
(* Game24.has_solution.                                                    *)
(*                                                                         *)
(* Python integers are unbounded and fractions.Fraction is exact, while    *)
(* TLC integers are 32 bits wide.  Integers are therefore kept as a sign   *)
(* and a little-endian sequence of base-10^4 limbs, and a Fraction as a    *)
(* numerator and a positive denominator of that kind.  Strings are kept    *)
(* as sequences of one-character strings so that they can be compared the  *)
(* way Python compares str values (by code point).                         *)
(***************************************************************************)
EXTENDS Integers, Sequences, FiniteSets, TLC

(***************************************************************************)
(* Python int: arbitrary precision integers.                               *)
(***************************************************************************)
Base == 10 ^ 4

RECURSIVE NatOf(_)
NatOf(n) == IF n = 0 THEN <<>> ELSE <<n % Base>> \o NatOf(n \div Base)

RECURSIVE NatAddC(_, _, _)
NatAddC(x, y, c) ==
    IF x = <<>> /\ y = <<>> THEN (IF c = 0 THEN <<>> ELSE <<c>>)
    ELSE LET xd == IF x = <<>> THEN 0 ELSE Head(x)
             yd == IF y = <<>> THEN 0 ELSE Head(y)
             s  == xd + yd + c
         IN  <<s % Base>> \o NatAddC(IF x = <<>> THEN x ELSE Tail(x),
                                     IF y = <<>> THEN y ELSE Tail(y),
                                     s \div Base)

NatAdd(x, y) ==
    IF Len(x) = 1 /\ Len(y) = 1 THEN NatOf(x[1] + y[1]) ELSE NatAddC(x, y, 0)

RECURSIVE Trim(_)
Trim(x) ==
    IF x # <<>> /\ x[Len(x)] = 0 THEN Trim(SubSeq(x, 1, Len(x) - 1)) ELSE x

RECURSIVE NatSubB(_, _, _)
\* x - y - b for x >= y + b
NatSubB(x, y, b) ==
    IF x = <<>> THEN <<>>
    ELSE LET yd == IF y = <<>> THEN 0 ELSE Head(y)
             s  == Head(x) - yd - b
         IN  <<s % Base>> \o NatSubB(Tail(x),
                                     IF y = <<>> THEN y ELSE Tail(y),
                                     IF s < 0 THEN 1 ELSE 0)

NatSub(x, y) ==
    IF Len(x) = 1 /\ Len(y) = 1 THEN NatOf(x[1] - y[1])
    ELSE Trim(NatSubB(x, y, 0))

RECURSIVE NatCmpFrom(_, _, _)
NatCmpFrom(x, y, i) ==
    IF i = 0 THEN 0
    ELSE IF x[i] < y[i] THEN -1
    ELSE IF x[i] > y[i] THEN 1
    ELSE NatCmpFrom(x, y, i - 1)

\* -1, 0, 1 as x < y, x = y, x > y
NatCmp(x, y) ==
    IF Len(x) < Len(y) THEN -1
    ELSE IF Len(x) > Len(y) THEN 1
    ELSE NatCmpFrom(x, y, Len(x))

RECURSIVE NatMulLimb(_, _, _)
NatMulLimb(x, m, c) ==
    IF x = <<>> THEN (IF c = 0 THEN <<>> ELSE <<c>>)
    ELSE LET p == Head(x) * m + c
         IN  <<p % Base>> \o NatMulLimb(Tail(x), m, p \div Base)

RECURSIVE NatMul(_, _)
NatMul(x, y) ==
    IF x = <<>> \/ y = <<>> THEN <<>>
    ELSE IF Len(x) = 1 /\ Len(y) = 1 THEN NatOf(x[1] * y[1])
    ELSE IF Len(y) = 1 THEN NatMulLimb(x, y[1], 0)
    ELSE NatAdd(NatMulLimb(x, Head(y), 0), <<0>> \o NatMul(x, Tail(y)))

MkInt(s, m) == [sgn |-> IF m = <<>> THEN 0 ELSE s, mag |-> m]

IntOf(n) == IF n < 0 THEN MkInt(-1, NatOf(-n)) ELSE MkInt(1, NatOf(n))

IntNeg(x) == [sgn |-> -x.sgn, mag |-> x.mag]

IntAbs(x) == [sgn |-> x.sgn * x.sgn, mag |-> x.mag]

IntAdd(x, y) ==
    IF x.sgn = 0 THEN y
    ELSE IF y.sgn = 0 THEN x
    ELSE IF x.sgn = y.sgn THEN MkInt(x.sgn, NatAdd(x.mag, y.mag))
    ELSE LET c == NatCmp(x.mag, y.mag)
         IN  IF c = 0 THEN MkInt(0, <<>>)
             ELSE IF c > 0 THEN MkInt(x.sgn, NatSub(x.mag, y.mag))
             ELSE MkInt(y.sgn, NatSub(y.mag, x.mag))

IntSub(x, y) == IntAdd(x, IntNeg(y))

IntMul(x, y) == MkInt(x.sgn * y.sgn, NatMul(x.mag, y.mag))

\* NatCmp(a * b, c * d) for a, b, c, d > 0.  A product of la and lb limbs
\* has la + lb - 1 or la + lb limbs, so the lengths alone often decide.
NatMulCmp(a, b, c, d) ==
    IF Len(a) + Len(b) - 1 > Len(c) + Len(d) THEN 1
    ELSE IF Len(c) + Len(d) - 1 > Len(a) + Len(b) THEN -1
    ELSE NatCmp(NatMul(a, b), NatMul(c, d))

\* a * b < c * d
IntMulLess(a, b, c, d) ==
    LET s == a.sgn * b.sgn
        t == c.sgn * d.sgn
    IN  IF s # t THEN s < t
        ELSE IF s = 0 THEN FALSE
        ELSE IF s > 0 THEN NatMulCmp(a.mag, b.mag, c.mag, d.mag) < 0
        ELSE NatMulCmp(a.mag, b.mag, c.mag, d.mag) > 0

(***************************************************************************)
(* str: a string is the sequence of its characters.                        *)
(***************************************************************************)
Digit == <<"0", "1", "2", "3", "4", "5", "6", "7", "8", "9">>

\* ord() of the characters that occur in an expression
Ord(ch) ==
    CASE ch = " " -> 32
      [] ch = "(" -> 40
      [] ch = ")" -> 41
      [] ch = "*" -> 42
      [] ch = "+" -> 43
      [] ch = "-" -> 45
      [] ch = "/" -> 47
      [] ch = "0" -> 48
      [] ch = "1" -> 49
      [] ch = "2" -> 50
      [] ch = "3" -> 51
      [] ch = "4" -> 52
      [] ch = "5" -> 53
      [] ch = "6" -> 54
      [] ch = "7" -> 55
      [] ch = "8" -> 56
      [] ch = "9" -> 57

RECURSIVE StrLessFrom(_, _, _)
StrLessFrom(s, t, i) ==
    IF i > Len(t) THEN FALSE
    ELSE IF i > Len(s) THEN TRUE
    ELSE IF s[i] = t[i] THEN StrLessFrom(s, t, i + 1)
    ELSE Ord(s[i]) < Ord(t[i])

\* s < t for str: the first differing code point decides, a proper prefix
\* is smaller
StrLess(s, t) == StrLessFrom(s, t, 1)

RECURSIVE DigitsOf(_)
\* decimal digits of a machine-sized n > 0
DigitsOf(n) ==
    IF n < 10 THEN <<Digit[n + 1]>>
    ELSE DigitsOf(n \div 10) \o <<Digit[(n % 10) + 1]>>

\* a limb below the top one prints as four digits
LimbStr(n) ==
    << Digit[(n \div 1000) + 1], Digit[((n \div 100) % 10) + 1],
       Digit[((n \div 10) % 10) + 1], Digit[(n % 10) + 1] >>

RECURSIVE NatStr(_)
NatStr(m) ==
    IF m = <<>> THEN <<"0">>
    ELSE IF Len(m) = 1 THEN DigitsOf(m[1])
    ELSE NatStr(SubSeq(m, 2, Len(m))) \o LimbStr(m[1])

\* str(int)
IntStr(x) == IF x.sgn < 0 THEN <<"-">> \o NatStr(x.mag) ELSE NatStr(x.mag)

(***************************************************************************)
(* fractions.Fraction.  A number handed to the solver is a record          *)
(* [num, den] of machine integers with den > 0 (a Python int n is n/1).    *)
(* A computed Fraction is a record [num, den] of unbounded integers with   *)
(* den > 0.  It is not reduced to lowest terms: the program reads a        *)
(* computed Fraction only through y == 0 and the comparison of line 92,    *)
(* which depend on its value alone.  Operands, which are printed, are      *)
(* reduced by the constructor.                                             *)
(***************************************************************************)
RECURSIVE GCD(_, _)
GCD(m, n) == IF n = 0 THEN m ELSE GCD(n, m % n)

Abs(n) == IF n < 0 THEN -n ELSE n

\* Fraction(a), line 60
Fraction(a) ==
    LET g == GCD(Abs(a.num), a.den)
    IN  [num |-> IntOf(a.num \div g), den |-> IntOf(a.den \div g)]

\* Fraction(n, d) for d # 0: the sign is carried by the numerator
MkFraction(n, d) ==
    IF d.sgn < 0 THEN [num |-> IntNeg(n), den |-> IntNeg(d)]
    ELSE [num |-> n, den |-> d]

FAdd(x, y) ==
    MkFraction(IntAdd(IntMul(x.num, y.den), IntMul(y.num, x.den)),
               IntMul(x.den, y.den))

FSub(x, y) ==
    MkFraction(IntSub(IntMul(x.num, y.den), IntMul(y.num, x.den)),
               IntMul(x.den, y.den))

FMul(x, y) == MkFraction(IntMul(x.num, y.num), IntMul(x.den, y.den))

\* a division that multiplies
FDivAsProduct(x, y) == MkFraction(IntMul(x.num, y.num), IntMul(x.den, y.den))

FDiv(x, y) == MkFraction(IntMul(x.num, y.den), IntMul(x.den, y.num))

FAbs(x) == [num |-> IntAbs(x.num), den |-> x.den]

FIsZero(x) == x.num.sgn = 0

\* Fraction._richcmp: a.numerator * b.denominator < a.denominator * b.numerator
FLess(x, y) == IntMulLess(x.num, y.den, x.den, y.num)

FEq(x, y) == IntMul(x.num, y.den) = IntMul(x.den, y.num)

\* str of a Fraction that always shows the denominator
FStrWithDenominator(x) == IntStr(x.num) \o <<"/">> \o IntStr(x.den)

\* Fraction.__str__
FStr(x) ==
    IF x.den = IntOf(1) THEN IntStr(x.num)
    ELSE IntStr(x.num) \o <<"/">> \o IntStr(x.den)

\* The float 1e-9 of line 92 as Fraction.from_float gives it:
\* 4835703278458517 / 2^82
Tolerance ==
    [ num |-> [sgn |-> 1, mag |-> <<8517, 7845, 7032, 4835>>],
      den |-> [sgn |-> 1, mag |-> <<4704, 9882, 5166, 8458, 327, 8357, 4>>] ]

(***************************************************************************)
(* Game24.evaluate_expression                                              *)
(***************************************************************************)
\* A call ends by returning a value or by raising an exception.
Return(v) == [exc |-> "", val |-> v]

Raise(e) == [exc |-> e, val |-> <<>>]

\* apply_op, lines 62-72.  An argument that raised never reaches the body:
\* the exception of the nested call propagates.
apply_op(x, y, op) ==
    IF x.exc # "" THEN x
    ELSE IF y.exc # "" THEN y
    ELSE CASE op = "+" -> Return(FAdd(x.val, y.val))
           [] op = "-" -> Return(FSub(x.val, y.val))
           [] op = "*" -> Return(FMul(x.val, y.val))
           [] op = "/" -> IF FIsZero(y.val) THEN Raise("ZeroDivisionError")
                          ELSE Return(FDiv(x.val, y.val))

structures ==
    << "((a op1 b) op2 c) op3 d",
       "(a op1 (b op2 c)) op3 d",
       "(a op1 b) op2 (c op3 d)",
       "a op1 ((b op2 c) op3 d)",
       "a op1 (b op2 (c op3 d))" >>

\* result of lines 75-89
Result(a, b, c, d, op1, op2, op3, structure) ==
    CASE structure = structures[1] ->
           apply_op(apply_op(apply_op(a, b, op1), c, op2), d, op3)
      [] structure = structures[2] ->
           apply_op(apply_op(a, apply_op(b, c, op2), op1), d, op3)
      [] structure = structures[3] ->
           apply_op(apply_op(a, b, op1), apply_op(c, d, op3), op2)
      [] structure = structures[4] ->
           apply_op(a, apply_op(apply_op(b, c, op2), d, op3), op1)
      [] structure = structures[5] ->
           apply_op(a, apply_op(b, apply_op(c, d, op3), op2), op1)
      [] OTHER -> Raise("UnboundLocalError")

\* expr of lines 75-89: the f-strings
Expr(a, b, c, d, op1, op2, op3, structure) ==
    LET sa == FStr(a)
        sb == FStr(b)
        sc == FStr(c)
        sd == FStr(d)
    IN  CASE structure = structures[1] ->
               <<"(", "(">> \o sa \o <<" ", op1, " ">> \o sb \o <<")", " ", op2, " ">>
                 \o sc \o <<")", " ", op3, " ">> \o sd
          [] structure = structures[2] ->
               <<"(">> \o sa \o <<" ", op1, " ", "(">> \o sb \o <<" ", op2, " ">>
                 \o sc \o <<")", ")", " ", op3, " ">> \o sd
          [] structure = structures[3] ->
               <<"(">> \o sa \o <<" ", op1, " ">> \o sb \o <<")", " ", op2, " ", "(">>
                 \o sc \o <<" ", op3, " ">> \o sd \o <<")">>
          [] structure = structures[4] ->
               sa \o <<" ", op1, " ", "(", "(">> \o sb \o <<" ", op2, " ">>
                 \o sc \o <<")", " ", op3, " ">> \o sd \o <<")">>
          [] structure = structures[5] ->
               sa \o <<" ", op1, " ", "(">> \o sb \o <<" ", op2, " ", "(">>
                 \o sc \o <<" ", op3, " ">> \o sd \o <<")", ")">>

\* a comparison with a tolerance of 1
IsWithinOne(result) ==
    FLess(FAbs(FSub(result, Fraction([num |-> 24, den |-> 1]))),
          Fraction([num |-> 1, den |-> 1]))

\* abs(result - 24) < 1e-9, line 92
IsTwentyFour(result) ==
    FLess(FAbs(FSub(result, Fraction([num |-> 24, den |-> 1]))), Tolerance)

\* the computation without the except clause: every exception gets through
TryWithoutExcept(result, expr) ==
    IF result.exc # "" THEN result
    ELSE Return([is_solution |-> IsTwentyFour(result.val), expr |-> expr])

\* try ... except (ZeroDivisionError, ValueError), lines 56 and 92-98, around
\* the computation of result and expr: (is_solution, expr), or the exception
\* the call lets through
Try(result, expr) ==
    IF result.exc \in {"ZeroDivisionError", "ValueError"}
      THEN Return([is_solution |-> FALSE, expr |-> <<>>])
    ELSE IF result.exc # "" THEN result
    ELSE Return([is_solution |-> IsTwentyFour(result.val), expr |-> expr])

\* lines 52-98
evaluate_expression(a, b, c, d, op1, op2, op3, structure) ==
    LET fa == Fraction(a)
        fb == Fraction(b)
        fc == Fraction(c)
        fd == Fraction(d)
    IN  Try(Result(Return(fa), Return(fb), Return(fc), Return(fd),
                   op1, op2, op3, structure),
            Expr(fa, fb, fc, fd, op1, op2, op3, structure))

(***************************************************************************)
(* Game24.find_all_solutions_from_numbers                                  *)
(***************************************************************************)
operations == <<"+", "-", "*", "/">>

RemoveAt(s, i) == SubSeq(s, 1, i - 1) \o SubSeq(s, i + 1, Len(s))

RECURSIVE PermutationsFrom(_, _)
RECURSIVE itertools_permutations(_)
\* the orderings of s that start with s[i], s[i+1], ...
PermutationsFrom(s, i) ==
    IF i > Len(s) THEN <<>>
    ELSE LET rest == itertools_permutations(RemoveAt(s, i))
         IN  [j \in 1..Len(rest) |-> <<s[i]>> \o rest[j]]
               \o PermutationsFrom(s, i + 1)

\* itertools.permutations(s): every ordering of the positions of s, in
\* lexicographic order of the positions; equal values are not merged
itertools_permutations(s) ==
    IF s = <<>> THEN << <<>> >> ELSE PermutationsFrom(s, 1)

\* itertools.product(operations, repeat=3): the last position varies fastest
itertools_product ==
    [i \in 1..64 |-> << operations[((i - 1) \div 16) + 1],
                        operations[(((i - 1) \div 4) % 4) + 1],
                        operations[((i - 1) % 4) + 1] >>]

\* only the given order, whatever keep_order is
OrderingsAsGiven(numbers, keep_order) == <<numbers>>

\* the search in any order trying the numbers backwards only
OrderingsBackwards(numbers, keep_order) ==
    IF keep_order THEN <<numbers>>
    ELSE << <<numbers[4], numbers[3], numbers[2], numbers[1]>> >>

\* the search in any order trying only the orderings that keep the first
\* number first
OrderingsFirstKept(numbers, keep_order) ==
    IF keep_order THEN <<numbers>>
    ELSE SubSeq(itertools_permutations(numbers), 1, 6)

\* lines 118-121
Orderings(numbers, keep_order) ==
    IF keep_order THEN <<numbers>> ELSE itertools_permutations(numbers)

\* one structure short
PerOrderingShort == Len(itertools_product) * (Len(structures) - 1)

\* calls of evaluate_expression made for one ordering, lines 127-133
PerOrdering == Len(itertools_product) * Len(structures)

\* The i-th call of evaluate_expression the loops of lines 124-133 make over
\* the orderings perms.
Call(perms, i) ==
    LET perm == perms[((i - 1) \div PerOrdering) + 1]
        ops  == itertools_product[(((i - 1) \div Len(structures))
                                     % Len(itertools_product)) + 1]
    IN  evaluate_expression(perm[1], perm[2], perm[3], perm[4],
                            ops[1], ops[2], ops[3],
                            structures[((i - 1) % Len(structures)) + 1])

\* The calls the loops make when none of them raises, in order.  (\o makes
\* the sequence explicit: TLC then evaluates each call once.)
Calls(perms) ==
    [i \in 1..(Len(perms) * PerOrdering) |-> Call(perms, i)] \o <<>>

Min(S) == CHOOSE x \in S : \A y \in S : x <= y

\* Lines 124-135 over those calls.  An exception a call lets through ends
\* the loops at that call.  exc is that exception ("" when the loops ran to
\* the end), evals the number of calls made, accepted the number of calls
\* that returned is_solution, solutions the set built.
Tally(calls) ==
    LET n      == Len(calls)
        raised == {i \in 1..n : calls[i].exc # ""}
        last   == IF raised = {} THEN n ELSE Min(raised)
        hits   == {i \in 1..last : calls[i].exc = "" /\ calls[i].val.is_solution}
    IN  [ exc       |-> IF raised = {} THEN "" ELSE calls[last].exc,
          evals     |-> last,
          accepted  |-> Cardinality(hits),
          solutions |-> {calls[i].val.expr : i \in hits} ]

\* lines 107-135
Loops(numbers, keep_order) == Tally(Calls(Orderings(numbers, keep_order)))

\* list(solutions), line 137: a set is listed in an order the program does
\* not control.  order = [rot, rev] picks the listing: some enumeration of
\* the set, rotated by rot places and reversed when rev.
Range(s) == {s[i] : i \in DOMAIN s}

RECURSIVE Take(_, _)
\* k elements of S, or all of S when it has fewer
Take(S, k) ==
    IF k = 0 \/ S = {} THEN <<>>
    ELSE LET x == CHOOSE y \in S : TRUE
         IN  <<x>> \o Take(S \ {x}, k - 1)

RECURSIVE Enumerate(_)
\* the elements of S in a sequence, taken 50 at a time
Enumerate(S) ==
    IF S = {} THEN <<>>
    ELSE LET front == Take(S, 50)
         IN  front \o Enumerate(S \ Range(front))

Reverse(s) == [i \in 1..Len(s) |-> s[Len(s) + 1 - i]]

Rotate(s, k) ==
    IF s = <<>> THEN s
    ELSE [i \in 1..Len(s) |-> s[((i - 1 + k) % Len(s)) + 1]]

list(S, order) ==
    LET s == Rotate(Enumerate(S), order.rot)
    IN  IF order.rev THEN Reverse(s) ELSE s

\* the list left as it was
unsorted(s) == s

\* sorted(), line 137: the elements of s in ascending order by str's <
sorted(s) == SortSeq(s, StrLess)

\* Line 137 after the loops: the list returned, or the exception.  evals and
\* accepted of the loops are carried along for the record of the call.
Finish(run, order) ==
    [ exc      |-> run.exc,
      val      |-> IF run.exc # "" THEN <<>>
                   ELSE sorted(list(run.solutions, order)),
      evals    |-> run.evals,
      accepted |-> run.accepted ]

(***************************************************************************)
(* Card, and the hands the model deals.                                    *)
(***************************************************************************)
\* a Python int as a number handed to the solver
PyInt(v) == [num |-> v, den |-> 1]

RECURSIVE int(_)
\* int(s) for a string of decimal digits
int(s) ==
    IF s = <<>> THEN 0
    ELSE 10 * int(SubSeq(s, 1, Len(s) - 1)) + (Ord(s[Len(s)]) - Ord("0"))

\* Card._get_value, lines 17-24
_get_value(rank) ==
    IF rank = <<"A">> THEN 1
    ELSE IF rank \in {<<"J">>, <<"Q">>, <<"K">>}
      THEN (CASE rank = <<"J">> -> 11 [] rank = <<"Q">> -> 12 [] rank = <<"K">> -> 13)
    ELSE int(rank)

\* Card.__init__, lines 12-15
Card(suit, rank) == [suit |-> suit, rank |-> rank, value |-> _get_value(rank)]

\* Game24.__init__, lines 36-37; the four suit symbols are written by name
suits == <<"spades", "hearts", "clubs", "diamonds">>

ranks ==
    << <<"A">>, <<"2">>, <<"3">>, <<"4">>, <<"5">>, <<"6">>, <<"7">>, <<"8">>,
       <<"9">>, <<"1", "0">>, <<"J">>, <<"Q">>, <<"K">> >>

\* four cards of the deck with the given values, one of each suit as in
\* test_has_solution
CardsOf(v) == [i \in 1..4 |-> Card(suits[i], ranks[v[i]])]

\* [card.value for card in cards], lines 102 and 480
ValuesOf(cards) == [i \in 1..Len(cards) |-> PyInt(cards[i].value)]

\* the hands of the test cases, lines 234-238, 251, 265-270, 337, 354-357
KnownHands ==
    { <<6, 6, 2, 2>>, <<8, 3, 8, 3>>, <<1, 1, 8, 8>>, <<4, 1, 8, 7>>,
      <<1, 1, 1, 1>>, <<13, 13, 13, 13>>, <<1, 2, 3, 4>>, <<2, 2, 2, 2>> }

\* number of further hands dealt
NumSampled == 6

\* the k-th of the 13^4 hands, k in 0..13^4-1
HandAt(k) ==
    << ((k \div 2197) % 13) + 1, ((k \div 169) % 13) + 1,
       ((k \div 13) % 13) + 1, (k % 13) + 1 >>

\* a walk through all hands: 577 and 13^4 have no common factor
SampledHands == {HandAt((i * 577) % 28561) : i \in 1..NumSampled}

Hands == {CardsOf(v) : v \in KnownHands \cup SampledHands}

\* the largest number of the small numbers handed over directly
MaxOperand == 2

\* numbers handed over directly: every four of 0..MaxOperand
SmallOperands ==
    {[i \in 1..4 |-> PyInt(t[i])] : t \in [1..4 -> 0..MaxOperand]}

\* the division by zero of test_evaluate_expression_division_by_zero, line
\* 224 (operands 1, 0, 2, 3), and operands that are fractions
GivenOperands ==
    { <<PyInt(1), PyInt(0), PyInt(2), PyInt(3)>>,
      <<PyInt(24), PyInt(1), PyInt(1), [num |-> 1, den |-> 2]>>,
      <<PyInt(24), PyInt(1), PyInt(1), [num |-> 1, den |-> 10 ^ 9]>>,
      <<[num |-> 71, den |-> 3], PyInt(1), PyInt(1), [num |-> 1, den |-> 3]>> }

EvalOperands == SmallOperands \cup GivenOperands

\* Loops is a function of its arguments; it is tabulated over the arguments
\* the model calls it with (TLC evaluates the table once).
Searched ==
    {<<ValuesOf(h), TRUE>> : h \in Hands}
      \cup {<<ValuesOf(h), FALSE>> : h \in Hands}
      \cup {<<v, TRUE>> : v \in EvalOperands}

LoopsOf == [q \in Searched |-> Loops(q[1], q[2])]

Ran(numbers, keep_order) ==
    IF <<numbers, keep_order>> \in Searched
      THEN LoopsOf[<<numbers, keep_order>>]
      ELSE Loops(numbers, keep_order)

\* lines 105-137
find_all_solutions_from_numbers(numbers, keep_order, order) ==
    Finish(Ran(numbers, keep_order), order)

\* find_all_solutions trying every ordering
find_all_solutions_any_order(cards, order) ==
    find_all_solutions_from_numbers(ValuesOf(cards), FALSE, order)

\* lines 100-103: keep_order takes its default, True
find_all_solutions(cards, order) ==
    find_all_solutions_from_numbers(ValuesOf(cards), TRUE, order)

\* line 142 on what line 141 got
NonEmpty(r) == IF r.exc # "" THEN Raise(r.exc) ELSE Return(Len(r.val) > 0)

\* lines 139-142
has_solution(cards, order) == NonEmpty(find_all_solutions(cards, order))

(***************************************************************************)
(* The state: what the calls made so far have returned.                    *)
(***************************************************************************)
VARIABLES
    hand,       \* the four cards drawn (<<>> when numbers were handed over)
    operands,   \* the four numbers handed to the solver
    found,      \* found[k]: the list find_all_solutions_from_numbers returned
                \* for keep_order = k
    evals,      \* evals[k]: calls of evaluate_expression made by that call
    accepts,    \* accepts[k]: those of them that returned is_solution
    solvable,   \* what has_solution returned
    evaluated,  \* what a direct call of evaluate_expression returned
    escaped     \* the exception a call let through, "" when none did

vars == <<hand, operands, found, evals, accepts, solvable, evaluated, escaped>>

NotCalled == [called |-> FALSE, args |-> <<>>, value |-> <<>>]

Returned(args, v) == [called |-> TRUE, args |-> args, value |-> v]

\* the listings of a set the model tries
MaxRotate == 1

Orders == [rot : 0..MaxRotate, rev : BOOLEAN]

InitCalls ==
    /\ found = [k \in BOOLEAN |-> NotCalled]
    /\ evals = [k \in BOOLEAN |-> 0]
    /\ accepts = [k \in BOOLEAN |-> 0]
    /\ solvable = NotCalled
    /\ evaluated = NotCalled
    /\ escaped = ""

\* random_mode, lines 476-481: four cards are drawn and their values taken
Init ==
    /\ hand \in Hands
    /\ operands = ValuesOf(hand)
    /\ InitCalls

\* a caller of the solver's methods hands four numbers over
InitEval ==
    /\ hand = <<>>
    /\ operands \in EvalOperands
    /\ InitCalls

\* the state after find_all_solutions_from_numbers(operands, keep_order)
\* ended with r
FindAllEnds(keep_order, r) ==
    /\ evals' = [evals EXCEPT ![keep_order] = r.evals]
    /\ accepts' = [accepts EXCEPT ![keep_order] = r.accepted]
    /\ IF r.exc = ""
         THEN /\ found' = [found EXCEPT ![keep_order] =
                             Returned(<<operands, keep_order>>, r.val)]
              /\ UNCHANGED escaped
         ELSE /\ escaped' = r.exc
              /\ UNCHANGED found
    /\ UNCHANGED <<hand, operands, solvable, evaluated>>

\* a call find_all_solutions_from_numbers(operands, keep_order)
FindAll(keep_order) ==
    \E order \in Orders :
      FindAllEnds(keep_order,
                  find_all_solutions_from_numbers(operands, keep_order, order))

\* the state after has_solution(hand) ended with r
HasSolutionEnds(r) ==
    /\ IF r.exc = ""
         THEN /\ solvable' = Returned(<<hand>>, r.val)
              /\ UNCHANGED escaped
         ELSE /\ escaped' = r.exc
              /\ UNCHANGED solvable
    /\ UNCHANGED <<hand, operands, found, evals, accepts, evaluated>>

\* a call has_solution(hand)
HasSolution ==
    /\ hand # <<>>
    /\ \E order \in Orders : HasSolutionEnds(has_solution(hand, order))

\* the state after evaluate_expression(args) ended with r
EvaluateEnds(args, r) ==
    /\ IF r.exc = ""
         THEN /\ evaluated' = Returned(args, r.val)
              /\ UNCHANGED escaped
         ELSE /\ evaluated' = Returned(args, <<>>)
              /\ escaped' = r.exc
    /\ UNCHANGED <<hand, operands, found, evals, accepts, solvable>>

\* A direct call evaluate_expression(a, b, c, d, op1, op2, op3, structure)
\* on the operands; the model follows one such call per run.
Evaluate(op1, op2, op3, structure) ==
    /\ ~evaluated.called
    /\ EvaluateEnds(<<operands, op1, op2, op3, structure>>,
                    evaluate_expression(operands[1], operands[2], operands[3],
                                        operands[4], op1, op2, op3, structure))

Next ==
    \/ \E keep_order \in BOOLEAN : FindAll(keep_order)
    \/ HasSolution

Spec == Init /\ [][Next]_vars

\* keep_order=True is what the callers that hand numbers over pass, lines
\* 340, 363 and 451
NextEval ==
    \/ \E op1 \in Range(operations), op2 \in Range(operations),
          op3 \in Range(operations), structure \in Range(structures) :
         Evaluate(op1, op2, op3, structure)
    \/ FindAll(TRUE)

SpecEval == InitEval /\ [][NextEval]_vars

(***************************************************************************)
(* The numbers of a hand handed over in another order.                     *)
(***************************************************************************)
\* number of rearrangements of the four positions the model tries
NumPermutations == 2

\* the i-th rearrangement: a walk through the 24 of them, 13 and 24 have no
\* common factor; the first is 3, 1, 4, 2
PermAt(i) == itertools_permutations(<<1, 2, 3, 4>>)[((i * 13) % 24) + 1]

PermsTried == {PermAt(i) : i \in 1..NumPermutations}

\* the numbers in the positions p names
Permuted(numbers, p) == [i \in 1..4 |-> numbers[p[i]]]

\* the state after find_all_solutions_from_numbers(numbers, keep_order)
\* ended with r
PermutedEnds(numbers, keep_order, r) ==
    /\ evals' = [evals EXCEPT ![keep_order] = r.evals]
    /\ accepts' = [accepts EXCEPT ![keep_order] = r.accepted]
    /\ IF r.exc = ""
         THEN /\ found' = [found EXCEPT ![keep_order] =
                             Returned(<<numbers, keep_order>>, r.val)]
              /\ UNCHANGED escaped
         ELSE /\ escaped' = r.exc
              /\ UNCHANGED found
    /\ UNCHANGED <<hand, operands, solvable, evaluated>>

\* line 137 on what the loops of lines 107-135 left in run, the set listed
\* in any of the orders
PermutedReturns(numbers, keep_order, run) ==
    \E order \in Orders :
      PermutedEnds(numbers, keep_order, Finish(run, order))

\* A call find_all_solutions_from_numbers(numbers, keep_order) where numbers
\* are the values of the hand rearranged by p; the model follows one such
\* call for each keep_order per run.
FindAllPermuted(p, keep_order) ==
    /\ ~found[keep_order].called
    /\ PermutedReturns(Permuted(operands, p), keep_order,
                       Ran(Permuted(operands, p), keep_order))

NextPermuted ==
    \E p \in PermsTried, keep_order \in BOOLEAN : FindAllPermuted(p, keep_order)

SpecPermuted == Init /\ [][NextPermuted]_vars

(***************************************************************************)
(* What the properties below are stated with: the candidates of a search,  *)
(* and the value of an expression read back from its string.               *)
(***************************************************************************)
TwentyFour == Fraction(PyInt(24))

\* the orderings a mode allows: the given one, or the four numbers under
\* each of the 24 permutations of their positions
AllowedOrderings(numbers, keep_order) ==
    IF keep_order THEN {numbers}
    ELSE {[i \in 1..4 |-> numbers[p[i]]] : p \in Permutations(1..4)}

Symbols == {"+", "-", "*", "/"}

\* a candidate: an ordering, an operator triple, a structure
Candidates(numbers, keep_order) ==
    AllowedOrderings(numbers, keep_order)
      \X (Symbols \X Symbols \X Symbols) \X Range(structures)

\* the string of a candidate
Formatted(c) ==
    Expr(Fraction(c[1][1]), Fraction(c[1][2]), Fraction(c[1][3]),
         Fraction(c[1][4]), c[2][1], c[2][2], c[2][3], c[3])

NoValue == [ok |-> FALSE, val |-> <<>>, next |-> 0]

\* x sym y in exact rational arithmetic; no value when a part has none or
\* when the divisor is zero
Arith(x, sym, y) ==
    IF ~x.ok \/ ~y.ok THEN NoValue
    ELSE CASE sym = "+" -> [ok |-> TRUE, val |-> FAdd(x.val, y.val), next |-> y.next]
           [] sym = "-" -> [ok |-> TRUE, val |-> FSub(x.val, y.val), next |-> y.next]
           [] sym = "*" -> [ok |-> TRUE, val |-> FMul(x.val, y.val), next |-> y.next]
           [] sym = "/" -> IF FIsZero(y.val) THEN NoValue
                           ELSE [ok |-> TRUE, val |-> FDiv(x.val, y.val), next |-> y.next]
           [] OTHER -> NoValue

RECURSIVE NumberEnd(_, _)
\* the position after the digits that start at position p of s
NumberEnd(s, p) ==
    IF p <= Len(s) /\ s[p] \in Range(Digit) THEN NumberEnd(s, p + 1) ELSE p

\* the number at position p of s: digits, or digits/digits
ReadNumber(s, p) ==
    LET q == NumberEnd(s, p)
        r == IF q < Len(s) /\ s[q] = "/" THEN NumberEnd(s, q + 1) ELSE q
    IN  IF q = p THEN NoValue
        ELSE IF r > q + 1
          THEN [ok   |-> TRUE,
                val  |-> Fraction([num |-> int(SubSeq(s, p, q - 1)),
                                   den |-> int(SubSeq(s, q + 1, r - 1))]),
                next |-> r]
        ELSE [ok   |-> TRUE,
              val  |-> Fraction(PyInt(int(SubSeq(s, p, q - 1)))),
              next |-> q]

RECURSIVE ReadOperand(_, _)
RECURSIVE ReadExpression(_, _)
\* the operand at position p of s: a number, or an expression in parentheses
ReadOperand(s, p) ==
    IF p > Len(s) THEN NoValue
    ELSE IF s[p] = "("
      THEN LET e == ReadExpression(s, p + 1)
           IN  IF e.ok /\ e.next <= Len(s) /\ s[e.next] = ")"
                 THEN [e EXCEPT !.next = e.next + 1]
                 ELSE NoValue
    ELSE ReadNumber(s, p)

\* operand, space, operator symbol, space, operand at position p of s
ReadExpression(s, p) ==
    LET x == ReadOperand(s, p)
    IN  IF ~x.ok \/ x.next + 3 > Len(s) THEN NoValue
        ELSE IF s[x.next] # " " \/ s[x.next + 2] # " " THEN NoValue
        ELSE Arith(x, s[x.next + 1], ReadOperand(s, x.next + 3))

\* the value of the whole string s, following its parentheses
ValueOf(s) ==
    LET e == ReadExpression(s, 1)
    IN  IF e.ok /\ e.next = Len(s) + 1 THEN e ELSE NoValue

\* s is an expression whose value is exactly 24
IsExactly24(s) ==
    LET v == ValueOf(s)
    IN  v.ok /\ FEq(v.val, TwentyFour)

\* the numbers of four cards of the given values
Numbers(v) == ValuesOf(CardsOf(v))

\* the candidate of a direct call with arguments args
CandidateOf(args) == <<args[1], <<args[2], args[3], args[4]>>, args[5]>>

\* the candidate divides by zero: its string has no value
DividesByZero(c) == ~ValueOf(Formatted(c)).ok

(***************************************************************************)
(* C1.  Soundness: for four ranks in 1..13 and both values of keep_order,  *)
(* every string find_all_solutions_from_numbers returned is the string of  *)
(* a candidate of the mode, and its value, computed exactly following the  *)
(* parentheses of the string, is 24.                                       *)
(***************************************************************************)
Soundness ==
    \A k \in BOOLEAN :
      found[k].called =>
        LET formats == {Formatted(c) : c \in Candidates(operands, k)}
        IN  \A j \in 1..Len(found[k].value) :
              /\ found[k].value[j] \in formats
              /\ IsExactly24(found[k].value[j])

\* both modes returned strings for 1, 1, 8, 8
SoundnessWitness ==
    /\ operands = Numbers(<<1, 1, 8, 8>>)
    /\ found[TRUE].called /\ Len(found[TRUE].value) > 0
    /\ found[FALSE].called /\ Len(found[FALSE].value) > Len(found[TRUE].value)

(***************************************************************************)
(* C2.  Completeness: the string of every candidate of the mode (ordering, *)
(* operator triple, structure) whose value is exactly 24, no division by   *)
(* zero on the way, is in the sequence returned.                           *)
(***************************************************************************)
Completeness ==
    \A k \in BOOLEAN :
      found[k].called =>
        LET returned == Range(found[k].value)
        IN  \A c \in Candidates(operands, k) :
              LET e == Formatted(c)
              IN  IsExactly24(e) => e \in returned

\* the search of 1, 2, 3, 4 in every ordering returned its 242 strings
CompletenessWitness ==
    /\ operands = Numbers(<<1, 2, 3, 4>>)
    /\ found[FALSE].called
    /\ Len(found[FALSE].value) = 242

(***************************************************************************)
(* C3.  The search over every ordering returns at least as many strings as *)
(* the search that keeps the order.                                        *)
(***************************************************************************)
AnyOrderFindsNoFewer ==
    (found[TRUE].called /\ found[FALSE].called)
      => Len(found[FALSE].value) >= Len(found[TRUE].value)

\* 6, 6, 2, 2: two strings in the given order, twenty over all orderings
AnyOrderFindsNoFewerWitness ==
    /\ operands = Numbers(<<6, 6, 2, 2>>)
    /\ found[TRUE].called /\ Len(found[TRUE].value) = 2
    /\ found[FALSE].called /\ Len(found[FALSE].value) = 20

(***************************************************************************)
(* C4.  The sequence returned is strictly ascending in str order (sorted,  *)
(* no string twice), and a call with the same arguments returns the same   *)
(* sequence, however the set of solutions happens to be listed.            *)
(***************************************************************************)
StrictlyAscending(s) == \A j \in 1..(Len(s) - 1) : StrLess(s[j], s[j + 1])

SortedAndRepeatable ==
    \A k \in BOOLEAN :
      found[k].called =>
        /\ StrictlyAscending(found[k].value)
        /\ \A order \in Orders :
             find_all_solutions_from_numbers(found[k].args[1], found[k].args[2],
                                             order).val = found[k].value

\* several strings were returned, and the set of them is listed differently
\* from one order to another
SortedAndRepeatableWitness ==
    /\ found[FALSE].called
    /\ Len(found[FALSE].value) >= 2
    /\ \E o1 \in Orders, o2 \in Orders :
         list(Range(found[FALSE].value), o1) # list(Range(found[FALSE].value), o2)

(***************************************************************************)
(* C5.  Division by zero is an outcome, not a crash: a direct call of      *)
(* evaluate_expression on a candidate that divides by zero returns         *)
(* (False, "") and raises nothing; the search adds no string for such a    *)
(* candidate and goes on through all its 320 candidates.                   *)
(***************************************************************************)
DivisionByZeroIsAnOutcome ==
    /\ escaped = ""
    /\ (evaluated.called /\ DividesByZero(CandidateOf(evaluated.args)))
         => evaluated.value = [is_solution |-> FALSE, expr |-> <<>>]
    /\ found[TRUE].called =>
         /\ evals[TRUE] = 320
         /\ <<>> \notin Range(found[TRUE].value)
         /\ (evaluated.called /\ DividesByZero(CandidateOf(evaluated.args)))
              => Formatted(CandidateOf(evaluated.args))
                   \notin Range(found[TRUE].value)

\* evaluate_expression(1, 0, 2, 3, '/', '+', '+', "((a op1 b) op2 c) op3 d")
\* returned (False, ""), and the search of 1, 0, 2, 3 returned
DivisionByZeroWitness ==
    /\ evaluated.called
    /\ evaluated.args = <<<<PyInt(1), PyInt(0), PyInt(2), PyInt(3)>>,
                          "/", "+", "+", "((a op1 b) op2 c) op3 d">>
    /\ evaluated.value = [is_solution |-> FALSE, expr |-> <<>>]
    /\ found[TRUE].called

(***************************************************************************)
(* C6.  has_solution(cards) is true exactly when                           *)
(* find_all_solutions_from_numbers(values of the cards as drawn,           *)
(* keep_order=True) is not empty: true for 6, 6, 2, 2 and false for        *)
(* A, A, A, A.                                                             *)
(***************************************************************************)
HasSolutionIsOrderedSearch ==
    solvable.called =>
      /\ \A order \in Orders :
           solvable.value =
             (find_all_solutions_from_numbers(ValuesOf(hand), TRUE, order).val
                # <<>>)
      /\ found[TRUE].called => (solvable.value = (found[TRUE].value # <<>>))
      /\ hand = CardsOf(<<6, 6, 2, 2>>) => solvable.value
      /\ hand = CardsOf(<<1, 1, 1, 1>>) => ~solvable.value

\* has_solution returned False for 4, 1, 8, 7, which has solutions only in
\* other orderings
HasSolutionWitness ==
    /\ hand = CardsOf(<<4, 1, 8, 7>>)
    /\ solvable.called /\ ~solvable.value
    /\ found[TRUE].called /\ found[TRUE].value = <<>>
    /\ found[FALSE].called /\ found[FALSE].value # <<>>

(***************************************************************************)
(* C7.  Acceptance is exact for any four rational operands: a candidate    *)
(* evaluate_expression accepts has the exact value 24, and so has every    *)
(* string the search returns.                                              *)
(***************************************************************************)
ExactAcceptance ==
    /\ (evaluated.called /\ escaped = "" /\ evaluated.value.is_solution)
         => IsExactly24(evaluated.value.expr)
    /\ found[TRUE].called =>
         \A j \in 1..Len(found[TRUE].value) : IsExactly24(found[TRUE].value[j])

(***************************************************************************)
(* C8.  The search ends without raising: whichever call is made next ends  *)
(* with no exception, no call made so far let one out, a call makes        *)
(* exactly 320 calls of evaluate_expression when keep_order is true and    *)
(* exactly 7680 when it is false, and the sequence returned is empty       *)
(* exactly when no candidate was accepted.                                 *)
(***************************************************************************)
SearchSize ==
    /\ escaped = ""
    /\ \A k \in BOOLEAN :
         /\ \A order \in Orders :
              find_all_solutions_from_numbers(operands, k, order).exc = ""
         /\ found[k].called =>
              /\ evals[k] = IF k THEN 320 ELSE 7680
              /\ (found[k].value = <<>>) <=> (accepts[k] = 0)

\* 2, 2, 2, 2: 7680 calls for values that are all the same, none accepted
SearchSizeWitness ==
    /\ operands = Numbers(<<2, 2, 2, 2>>)
    /\ found[TRUE].called /\ evals[TRUE] = 320
    /\ found[FALSE].called /\ evals[FALSE] = 7680
    /\ accepts[FALSE] = 0 /\ found[FALSE].value = <<>>

(***************************************************************************)
(* C9.  With keep_order=False the search returns strings for 6, 6, 2, 2,   *)
(* for 8, 3, 8, 3, for 1, 1, 8, 8 and for 4, 1, 8, 7, and none for         *)
(* 1, 1, 1, 1.                                                             *)
(***************************************************************************)
KnownHandsSolved ==
    found[FALSE].called =>
      /\ operands = Numbers(<<6, 6, 2, 2>>) => found[FALSE].value # <<>>
      /\ operands = Numbers(<<8, 3, 8, 3>>) => found[FALSE].value # <<>>
      /\ operands = Numbers(<<1, 1, 8, 8>>) => found[FALSE].value # <<>>
      /\ operands = Numbers(<<4, 1, 8, 7>>) => found[FALSE].value # <<>>
      /\ operands = Numbers(<<1, 1, 1, 1>>) => found[FALSE].value = <<>>

\* 8, 3, 8, 3 has the one solution 8 / (3 - (8 / 3))
KnownHandsSolvedWitness ==
    /\ operands = Numbers(<<8, 3, 8, 3>>)
    /\ found[FALSE].called
    /\ found[FALSE].value = << <<"8", " ", "/", " ", "(", "3", " ", "-",
                             " ", "(", "8", " ", "/", " ", "3", ")",
                             ")">> >>

(***************************************************************************)
(* C10.  With keep_order=False the strings returned for 6, 6, 2, 2 include *)
(* "(6 * 2) + (6 * 2)" and those for 4, 1, 8, 7 include                    *)
(* "(8 - 4) * (7 - 1)": integers without a denominator, one space on each  *)
(* side of an operator symbol, the parentheses of (a op1 b) op2 (c op3 d). *)
(* No string carries an "= 24".                                            *)
(***************************************************************************)
DocumentedStrings ==
    found[FALSE].called =>
      /\ operands = Numbers(<<6, 6, 2, 2>>) =>
           <<"(", "6", " ", "*", " ", "2", ")", " ", "+", " ", "(",
             "6", " ", "*", " ", "2", ")">>
             \in Range(found[FALSE].value)
      /\ operands = Numbers(<<4, 1, 8, 7>>) =>
           <<"(", "8", " ", "-", " ", "4", ")", " ", "*", " ", "(",
             "7", " ", "-", " ", "1", ")">>
             \in Range(found[FALSE].value)
      /\ \A j \in 1..Len(found[FALSE].value) :
           "=" \notin Range(found[FALSE].value[j])

\* the search of 4, 1, 8, 7 returned "(8 - 4) * (7 - 1)" among its 48
\* strings
DocumentedStringsWitness ==
    /\ operands = Numbers(<<4, 1, 8, 7>>)
    /\ found[FALSE].called
    /\ Len(found[FALSE].value) = 48
    /\ \E j \in 1..Len(found[FALSE].value) :
         found[FALSE].value[j] =
           <<"(", "8", " ", "-", " ", "4", ")", " ", "*", " ", "(",
             "7", " ", "-", " ", "1", ")">>

(***************************************************************************)
(* C11.  The search in any order does not depend on the order the numbers  *)
(* are given in: for the numbers Q of a hand and a rearrangement P of      *)
(* their positions, find_all_solutions_from_numbers(P(Q), keep_order=False)*)
(* returns the sequence find_all_solutions_from_numbers(Q,                 *)
(* keep_order=False) returns, and every string of                          *)
(* find_all_solutions_from_numbers(P(Q), keep_order=True) is in it.        *)
(***************************************************************************)
PermutationInvariance ==
    /\ found[FALSE].called =>
         \A order \in Orders :
           found[FALSE].value =
             find_all_solutions_from_numbers(operands, FALSE, order).val
    /\ (found[TRUE].called /\ found[FALSE].called
          /\ found[TRUE].args[1] = found[FALSE].args[1])
         => Range(found[TRUE].value) \subseteq Range(found[FALSE].value)

\* 4, 1, 8, 7 handed over as 8, 4, 7, 1: the search in the order given
\* returned strings, "(8 - 4) * (7 - 1)" among them, and the search in any
\* order returned 48
PermutationInvarianceWitness ==
    /\ operands = Numbers(<<4, 1, 8, 7>>)
    /\ found[TRUE].called /\ found[FALSE].called
    /\ found[TRUE].args[1] = Numbers(<<8, 4, 7, 1>>)
    /\ found[FALSE].args[1] = Numbers(<<8, 4, 7, 1>>)
    /\ <<"(", "8", " ", "-", " ", "4", ")", " ", "*", " ", "(",
         "7", " ", "-", " ", "1", ")">> \in Range(found[TRUE].value)
    /\ Len(found[FALSE].value) = 48

====
